---- MODULE Spec2Model ----
(***************************************************************************)
(* The synchronization core of the dashboard: SimulationProvider of        *)
(* frontend/src/state/SimulationContext.tsx.  The reducer state, the       *)
(* polling timer, the refreshData cycles and the initialize / control      *)
(* commands, as they run on the browser's single event loop.               *)
(*                                                                         *)
(* A payload is identified by the id of the refreshData call that fetched  *)
(* it (0 is the initial empty value: null or []).  Cycle ids and the       *)
(* caller and generation of a cycle are history the code does not keep;    *)
(* they are recorded to state properties.                                  *)
(*                                                                         *)
(* Spec and SpecTimed take the five GETs of a cycle as one step; SpecFetch *)
(* follows them one by one (fetches).  SpecOutput follows what the         *)
(* commands send out: the POST, the toast, the returned value (out).       *)
(* SpecTimeout follows the GETs of the mount-time cycle on a clock, up to  *)
(* the client's timeout (age); SpecTeardown runs the provider to its       *)
(* unmount; SpecPanel adds handleInitialize of components/Header.tsx       *)
(* (panel); SpecReducer dispatches on the reducer alone.                   *)
(***************************************************************************)
EXTENDS Integers, FiniteSets

\* ---- bounds ----
MaxCycles == 2          \* refreshData calls in one behaviour
MaxTimers == 2          \* setInterval calls in one behaviour
MaxCommands == 2        \* commands that may be pending at the same time
StepsPerInterval == 2   \* clock steps in one polling interval
StepsPerTimeout == 2    \* clock steps in one request timeout

\* ---- program constants ----
Interval == 2000        \* setInterval(..., 2000)
TimeStep == Interval \div StepsPerInterval
Timeout == 10000        \* axios.create({ timeout: 10000 })
TimeoutStep == Timeout \div StepsPerTimeout

Sources == {"status", "agents", "network", "economy", "culture"}
CycleIds == 1..MaxCycles
TimerIds == 1..MaxTimers
Kinds == {"initialize", "control"}
NoError == "null"

\* ---- the remote system's answers ----
\* A GET is rejected (network error, HTTP error, timeout) or fulfilled.  The
\* body of a fulfilled /agents answer has an agents list ("fulfilled"), has
\* none ("noagents": data.agents is undefined) or is null ("nulldata").
Responses(s) ==
    IF s = "agents" THEN {"fulfilled", "rejected", "noagents", "nulldata"}
    ELSE {"fulfilled", "rejected"}
Outcomes == { o \in [Sources -> {"fulfilled", "rejected", "noagents", "nulldata"}] :
                \A s \in Sources : o[s] \in Responses(s) }
Fulfilled(r) == r # "rejected"

\* A POST answers with a body whose status field is 'initialized', another
\* non-empty string ("other") or missing ("none"), or it fails with an error
\* that carries response.data.detail ("detail"), only a message ("message")
\* or neither ("bare").
Replies == {"initialized", "other", "none", "detail", "message", "bare"}

\* ---- state ----
VARIABLES
    state,            \* the useReducer state
    updateInterval,   \* the useState timer handle (0 is null)
    closureInterval,  \* updateInterval as captured by the last render's closures
    timers,           \* live browser timers: id -> time until the next fire
    nextTimer,        \* the id the next setInterval returns
    cycles,           \* refreshData calls: id -> [pc, caller, gen]; gen is the
                      \* timer handle of the run the call was made in
    nextCycle,        \* the id of the next refreshData call
    posting,          \* commands awaiting their POST: kind -> how many
    phase,            \* "initial" before the mount effects, then "mounted"
    fetches,          \* the GETs of each cycle: "pending" or the answer
    out,              \* what the last step sent out: POSTs, toast, return value
    age,              \* how long the GETs of each cycle have been out
    panel             \* the control panel's handleInitialize: where it is,
                      \* the handle its render captured, the cycle it
                      \* awaits, the reply its POST got

vars == <<state, updateInterval, closureInterval, timers, nextTimer, cycles,
          nextCycle, posting, phase, fetches, out, age, panel>>

\* ---- the reducer ----
initialState ==
    [status |-> 0, agents |-> 0, networkData |-> 0, economicData |-> 0,
     culturalData |-> 0, loading |-> FALSE, error |-> NoError, connected |-> FALSE]

\* The action types, and a type the union does not have.
ActionTypes ==
    {"SET_LOADING", "SET_ERROR", "SET_CONNECTED", "SET_STATUS", "SET_AGENTS",
     "SET_NETWORK_DATA", "SET_ECONOMIC_DATA", "SET_CULTURAL_DATA",
     "UPDATE_REALTIME_DATA", "UNKNOWN"}

\* The payloads an action of a type can carry (0 where it carries none).
Payloads(type) ==
    CASE type \in {"SET_LOADING", "SET_CONNECTED"} -> BOOLEAN
      [] type = "SET_ERROR" -> {NoError, "detail", "TypeError"}
      [] type \in {"UPDATE_REALTIME_DATA", "UNKNOWN"} -> {0}
      [] OTHER -> 0..MaxCycles

\* A reducer whose SET_LOADING also resets the message.
simulationReducerResetsError(st, type, payload) ==
    CASE type = "SET_LOADING"       -> [st EXCEPT !.loading = payload,
                                                  !.error = NoError]
      [] type = "SET_ERROR"         -> [st EXCEPT !.error = payload]
      [] type = "SET_CONNECTED"     -> [st EXCEPT !.connected = payload]
      [] type = "SET_STATUS"        -> [st EXCEPT !.status = payload]
      [] type = "SET_AGENTS"        -> [st EXCEPT !.agents = payload]
      [] type = "SET_NETWORK_DATA"  -> [st EXCEPT !.networkData = payload]
      [] type = "SET_ECONOMIC_DATA" -> [st EXCEPT !.economicData = payload]
      [] type = "SET_CULTURAL_DATA" -> [st EXCEPT !.culturalData = payload]
      [] type = "UPDATE_REALTIME_DATA" -> st
      [] OTHER                      -> st

\* Each case builds a new object from the spread of state and one field;
\* UPDATE_REALTIME_DATA spreads state alone, the default returns it.
simulationReducer(st, type, payload) ==
    CASE type = "SET_LOADING"       -> [st EXCEPT !.loading = payload]
      [] type = "SET_ERROR"         -> [st EXCEPT !.error = payload]
      [] type = "SET_CONNECTED"     -> [st EXCEPT !.connected = payload]
      [] type = "SET_STATUS"        -> [st EXCEPT !.status = payload]
      [] type = "SET_AGENTS"        -> [st EXCEPT !.agents = payload]
      [] type = "SET_NETWORK_DATA"  -> [st EXCEPT !.networkData = payload]
      [] type = "SET_ECONOMIC_DATA" -> [st EXCEPT !.economicData = payload]
      [] type = "SET_CULTURAL_DATA" -> [st EXCEPT !.culturalData = payload]
      [] type = "UPDATE_REALTIME_DATA" -> st
      [] OTHER                      -> st

\* The field of the state that holds a source's payload.
Slot(st, s) ==
    CASE s = "status"  -> st.status
      [] s = "agents"  -> st.agents
      [] s = "network" -> st.networkData
      [] s = "economy" -> st.economicData
      [] s = "culture" -> st.culturalData

Snapshot(st) ==
    <<st.status, st.agents, st.networkData, st.economicData, st.culturalData,
      st.connected>>

\* ---- refreshData ----
\* agentsResponse.value.data.agents || []
AgentsPayload(c, r) == IF r = "fulfilled" THEN c ELSE 0

\* Reading .agents of a null body throws a TypeError inside the try block.
RefreshThrows(o) == o["agents"] = "nulldata"

\* The payload cycle c stores for source s when its fetch answered r.
Payload(s, c, r) == IF s = "agents" THEN AgentsPayload(c, r) ELSE c

\* A rejected status GET taken as the loss of the connection.
RefreshCommitLowersOnReject(st, c, o) ==
    LET s1 == IF Fulfilled(o["status"])
              THEN simulationReducer(simulationReducer(st, "SET_STATUS", c),
                                     "SET_CONNECTED", TRUE)
              ELSE simulationReducer(st, "SET_CONNECTED", FALSE)
        s2 == IF Fulfilled(o["agents"])
              THEN simulationReducer(s1, "SET_AGENTS", AgentsPayload(c, o["agents"]))
              ELSE s1
        s3 == IF Fulfilled(o["network"])
              THEN simulationReducer(s2, "SET_NETWORK_DATA", c) ELSE s2
        s4 == IF Fulfilled(o["economy"])
              THEN simulationReducer(s3, "SET_ECONOMIC_DATA", c) ELSE s3
        s5 == IF Fulfilled(o["culture"])
              THEN simulationReducer(s4, "SET_CULTURAL_DATA", c) ELSE s4
    IN  IF RefreshThrows(o)
        THEN simulationReducer(simulationReducer(s1, "SET_ERROR", "TypeError"),
                               "SET_CONNECTED", FALSE)
        ELSE s5

\* Every answer dispatched whether it was fulfilled or not: a rejected GET
\* stores the empty value.
RefreshCommitClearsRejected(st, c, o) ==
    LET Value(s) == IF Fulfilled(o[s]) THEN Payload(s, c, o[s]) ELSE 0
        s0 == simulationReducer(st, "SET_STATUS", Value("status"))
        s1 == IF Fulfilled(o["status"])
              THEN simulationReducer(s0, "SET_CONNECTED", TRUE) ELSE s0
        s2 == simulationReducer(s1, "SET_AGENTS", Value("agents"))
        s3 == simulationReducer(s2, "SET_NETWORK_DATA", Value("network"))
        s4 == simulationReducer(s3, "SET_ECONOMIC_DATA", Value("economy"))
    IN  simulationReducer(s4, "SET_CULTURAL_DATA", Value("culture"))

\* The continuation of refreshData after Promise.allSettled: the dispatches of
\* lines 276-300 in order, cut short by the catch block when one throws.
RefreshCommit(st, c, o) ==
    LET s1 == IF Fulfilled(o["status"])
              THEN simulationReducer(simulationReducer(st, "SET_STATUS", c),
                                     "SET_CONNECTED", TRUE)
              ELSE st
        s2 == IF Fulfilled(o["agents"])
              THEN simulationReducer(s1, "SET_AGENTS", AgentsPayload(c, o["agents"]))
              ELSE s1
        s3 == IF Fulfilled(o["network"])
              THEN simulationReducer(s2, "SET_NETWORK_DATA", c) ELSE s2
        s4 == IF Fulfilled(o["economy"])
              THEN simulationReducer(s3, "SET_ECONOMIC_DATA", c) ELSE s3
        s5 == IF Fulfilled(o["culture"])
              THEN simulationReducer(s4, "SET_CULTURAL_DATA", c) ELSE s4
    IN  IF RefreshThrows(o)
        THEN simulationReducer(simulationReducer(s1, "SET_ERROR", "TypeError"),
                               "SET_CONNECTED", FALSE)
        ELSE s5

NoCycle == [pc |-> "none", caller |-> "none", gen |-> 0]
DoneCycle == [pc |-> "done", caller |-> "none", gen |-> 0]
NoFetches == [s \in Sources |-> "idle"]
AllPending == [s \in Sources |-> "pending"]

\* The control panel with no handleInitialize under way.
NoPanel == [pc |-> "idle", captured |-> 0, cycle |-> 0, reply |-> "none"]

\* What one step sends out: the POSTs issued, the toast shown, and the value
\* a command's promise resolves with ("none" while it has not returned).
NoOutput == [posts |-> 0, toast |-> "none", text |-> "", result |-> "none"]

\* refreshData without its first dispatch: the old message stays.
RefreshStartKeepsError(st, caller) ==
    /\ nextCycle <= MaxCycles
    /\ state' = st
    /\ cycles' = [cycles EXCEPT ![nextCycle] =
                    [pc |-> "fetching", caller |-> caller, gen |-> updateInterval]]
    /\ nextCycle' = nextCycle + 1
    /\ fetches' = [fetches EXCEPT ![nextCycle] = AllPending]

\* The synchronous head of refreshData: SET_ERROR null, then the five GETs go
\* out together and the call suspends on Promise.allSettled.
RefreshStart(st, caller) ==
    /\ nextCycle <= MaxCycles
    /\ state' = simulationReducer(st, "SET_ERROR", NoError)
    /\ cycles' = [cycles EXCEPT ![nextCycle] =
                    [pc |-> "fetching", caller |-> caller, gen |-> updateInterval]]
    /\ nextCycle' = nextCycle + 1
    /\ fetches' = [fetches EXCEPT ![nextCycle] = AllPending]

Init ==
    /\ state = initialState
    /\ updateInterval = 0
    /\ closureInterval = 0
    /\ timers = [t \in {} |-> 0]
    /\ nextTimer = 1
    /\ cycles = [c \in CycleIds |-> NoCycle]
    /\ nextCycle = 1
    /\ posting = [kind \in Kinds |-> 0]
    /\ phase = "initial"
    /\ fetches = [c \in CycleIds |-> NoFetches]
    /\ out = NoOutput
    /\ age = [c \in CycleIds |-> 0]
    /\ panel = NoPanel

\* useEffect(() => { refreshData() }, []) : the fetch at mount.
MountEffect ==
    /\ phase = "initial"
    /\ phase' = "mounted"
    /\ RefreshStart(state, "mount")
    /\ UNCHANGED <<updateInterval, closureInterval, timers, nextTimer, posting>>

\* A try block without its catch: the TypeError leaves refreshData.
RefreshResultUncaught(o) == IF RefreshThrows(o) THEN "rejected" ELSE "done"

\* How the promise of refreshData settles: "done" when it resolves, "rejected"
\* when an error leaves the function.  The whole body is inside the try block;
\* what it throws is caught at line 302, and the two dispatches of the catch
\* block do not throw.
RefreshResult(o) ==
    CASE RefreshThrows(o) -> "done"
      [] OTHER -> "done"

\* Promise.all in place of Promise.allSettled: the first rejection ends the wait.
AllOrFirstRejected(f) ==
    \/ \A s \in Sources : f[s] # "pending"
    \/ \E s \in Sources : f[s] = "rejected"

\* Promise.allSettled: every GET of the cycle has been fulfilled or rejected.
AllSettled(f) == \A s \in Sources : f[s] # "pending"

\* refreshData resumes with the answers o, dispatches and returns.  A command
\* awaiting it returns true and its finally block clears loading (had the
\* promise rejected, the catch block of the command would run instead).
RefreshResume(c, o) ==
    /\ LET committed == RefreshCommit(state, c, o)
           caught == simulationReducer(committed, "SET_ERROR", "TypeError")
       IN  state' = IF cycles[c].caller # "command" THEN committed
                    ELSE IF RefreshResult(o) = "done"
                    THEN simulationReducer(committed, "SET_LOADING", FALSE)
                    ELSE simulationReducer(caught, "SET_LOADING", FALSE)
    /\ cycles' = [cycles EXCEPT ![c] = [DoneCycle EXCEPT !.pc = RefreshResult(o)]]
    /\ fetches' = [fetches EXCEPT ![c] = NoFetches]
    /\ UNCHANGED <<updateInterval, closureInterval, timers, nextTimer, nextCycle,
                   posting, phase>>

\* The five fetches of cycle c settle with outcomes o, taken as one step:
\* refreshData resumes once, after the last of them.
RefreshComplete(c, o) ==
    /\ phase = "mounted"
    /\ cycles[c].pc = "fetching"
    /\ fetches[c] = AllPending
    /\ RefreshResume(c, o)

\* One GET of cycle c settles with answer r.  Promise.allSettled resolves with
\* the last of the five, and refreshData resumes in the same turn.
FetchSettle(c, s, r) ==
    /\ phase = "mounted"
    /\ cycles[c].pc = "fetching"
    /\ fetches[c][s] = "pending"
    /\ LET f == [fetches[c] EXCEPT ![s] = r]
       IN  IF AllSettled(f)
           THEN RefreshResume(c, f)
           ELSE /\ fetches' = [fetches EXCEPT ![c] = f]
                /\ UNCHANGED <<state, updateInterval, closureInterval, timers,
                               nextTimer, cycles, nextCycle, posting, phase>>

\* An answer arrives while axios is still waiting for it.
FetchAnswer(c, s, r) ==
    /\ age[c] < Timeout
    /\ FetchSettle(c, s, r)

\* The client created without a timeout: axios waits for ever.
FetchNeverTimesOut(c, s) ==
    /\ FALSE
    /\ UNCHANGED <<state, updateInterval, closureInterval, timers, nextTimer,
                   cycles, nextCycle, posting, phase, fetches>>

\* A GET that has been out for Timeout is given up by axios: its promise is
\* rejected, like that of any other failed request.
FetchTimeout(c, s) ==
    /\ age[c] >= Timeout
    /\ FetchSettle(c, s, "rejected")

\* Time passes while GETs are out; a timeout that is due fires first.
Tick ==
    /\ \E c \in CycleIds : cycles[c].pc = "fetching"
    /\ \A c \in CycleIds : cycles[c].pc = "fetching" => age[c] < Timeout
    /\ age' = [c \in CycleIds |->
                 IF cycles[c].pc = "fetching" THEN age[c] + TimeoutStep ELSE age[c]]
    /\ UNCHANGED <<state, updateInterval, closureInterval, timers, nextTimer,
                   cycles, nextCycle, posting, phase, fetches, out, panel>>

\* ---- the polling timer ----
\* startRealTimeUpdates: a no-op when the captured handle is set, else
\* setInterval and setUpdateInterval.
StartWith(captured) ==
    IF captured # 0
    THEN UNCHANGED <<updateInterval, timers, nextTimer>>
    ELSE /\ nextTimer <= MaxTimers
         /\ timers' = [t \in DOMAIN timers \cup {nextTimer} |->
                         IF t = nextTimer THEN Interval ELSE timers[t]]
         /\ updateInterval' = nextTimer
         /\ nextTimer' = nextTimer + 1

startRealTimeUpdates ==
    /\ phase = "mounted"
    /\ StartWith(closureInterval)
    /\ UNCHANGED <<state, closureInterval, cycles, nextCycle, posting, phase, fetches>>

\* stopRealTimeUpdates: clearInterval of the captured handle, if any.
stopRealTimeUpdates ==
    /\ phase = "mounted"
    /\ IF closureInterval # 0
       THEN /\ timers' = [t \in DOMAIN timers \ {closureInterval} |-> timers[t]]
            /\ updateInterval' = 0
       ELSE UNCHANGED <<updateInterval, timers>>
    /\ UNCHANGED <<state, closureInterval, cycles, nextCycle, posting, phase, fetches,
                   nextTimer>>

\* The provider re-renders after setUpdateInterval: the functions handed out
\* from now on capture the new handle.
Render ==
    /\ phase = "mounted"
    /\ closureInterval # updateInterval
    /\ closureInterval' = updateInterval
    /\ UNCHANGED <<state, updateInterval, timers, nextTimer, cycles, nextCycle,
                   posting, phase, fetches>>

\* The handle the first render captured: useState(null).
FirstRenderInterval == 0

\* The provider is unmounted: React runs the cleanup of the effect of lines
\* 328-332.  The effect has no dependencies, so its stopRealTimeUpdates is
\* the one of the first render, which tests the handle that render captured.
Unmount ==
    /\ phase = "mounted"
    /\ phase' = "unmounted"
    /\ IF FirstRenderInterval # 0
       THEN /\ timers' = [t \in DOMAIN timers \ {FirstRenderInterval} |-> timers[t]]
            /\ updateInterval' = 0
       ELSE UNCHANGED <<updateInterval, timers>>
    /\ UNCHANGED <<state, closureInterval, nextTimer, cycles, nextCycle, posting,
                   fetches>>

\* The interval callback run although no interval was set.
TimerFireUnstarted(t) ==
    /\ phase = "mounted"
    /\ RefreshStart(state, "timer")
    /\ UNCHANGED <<updateInterval, closureInterval, timers, nextTimer, posting,
                   phase>>

\* The setInterval callback: async () => { await refreshData() }.  It fires
\* every Interval whether or not the previous call has returned.
TimerFire(t) ==
    /\ phase = "mounted"
    /\ t \in DOMAIN timers
    /\ timers[t] <= 0
    /\ timers' = [timers EXCEPT ![t] = Interval]
    /\ RefreshStart(state, "timer")
    /\ UNCHANGED <<updateInterval, closureInterval, nextTimer, posting, phase>>

\* Time passes by one step; a timer that is due fires first.
Advance ==
    /\ phase = "mounted"
    /\ \A t \in DOMAIN timers : timers[t] > 0
    /\ DOMAIN timers # {}
    /\ timers' = [t \in DOMAIN timers |-> timers[t] - TimeStep]
    /\ UNCHANGED <<state, updateInterval, closureInterval, nextTimer, cycles,
                   nextCycle, posting, phase, fetches>>

\* ---- commands ----
\* A slip: initialize tested like control, for any truthy status.
CommandSucceededAnyStatus(kind, reply) == reply \in {"initialized", "other"}

\* response.data.status === 'initialized' for initialize, a truthy
\* response.data.status for control.
CommandSucceeded(kind, reply) ==
    IF kind = "initialize" THEN reply = "initialized"
    ELSE reply \in {"initialized", "other"}

GenericMessage(kind) ==
    IF kind = "initialize" THEN "Failed to initialize simulation"
    ELSE "Failed to <action> simulation"

\* The error that reaches the catch block, "" standing for a field that is
\* missing or empty: an axios error whose response body has a detail, one
\* with a message only, one with neither, or the Error thrown for an
\* unexpected status, which carries the generic text as its message.
ErrorOf(kind, reply) ==
    CASE reply = "detail"  -> [detail |-> "detail", message |-> "message"]
      [] reply = "message" -> [detail |-> "", message |-> "message"]
      [] reply = "bare"    -> [detail |-> "", message |-> ""]
      [] OTHER             -> [detail |-> "", message |-> GenericMessage(kind)]

\* a || b on strings
Or(a, b) == IF a # "" THEN a ELSE b

\* The error's own message preferred to the remote system's.
ErrorMessageOwnFirst(kind, reply) ==
    LET error == ErrorOf(kind, reply)
    IN  Or(error.message, Or(error.detail, GenericMessage(kind)))

\* error.response?.data?.detail || error.message || generic
ErrorMessage(kind, reply) ==
    LET error == ErrorOf(kind, reply)
    IN  Or(error.detail, Or(error.message, GenericMessage(kind)))

\* 'Simulation initialized successfully', `Simulation ${action} successful`
SuccessMessage(kind) ==
    IF kind = "initialize" THEN "Simulation initialized successfully"
    ELSE "Simulation <action> successful"

\* The text of the toast a command shows when its POST has settled.
ToastText(kind, reply) ==
    IF CommandSucceeded(kind, reply) THEN SuccessMessage(kind)
    ELSE ErrorMessage(kind, reply)

\* A failure that shows no notification.
CommandToastSilentFailure(kind, reply) ==
    IF CommandSucceeded(kind, reply) THEN "success" ELSE "none"

\* toast.success in the success branch, toast.error in the catch block.
CommandToast(kind, reply) ==
    IF CommandSucceeded(kind, reply) THEN "success" ELSE "error"

\* apiClient.post, called once (lines 218 and 243).
CommandCallOutput ==
    [posts |-> 1, toast |-> "none", text |-> "", result |-> "none"]

\* The continuation after the POST: the success branch shows its toast and
\* goes on to await refreshData; the catch block shows its toast and the
\* command returns false.
CommandSettleOutput(kind, reply) ==
    [posts |-> 0, toast |-> CommandToast(kind, reply),
     text |-> ToastText(kind, reply),
     result |-> IF CommandSucceeded(kind, reply) THEN "none" ELSE "false"]

\* The continuation after refreshData: a command awaiting it returns true
\* (had the promise rejected, its catch block would show the failure toast
\* and return false).  The timer callback and the mount effect send nothing.
RefreshOutput(c, o) ==
    IF cycles[c].caller # "command" THEN NoOutput
    ELSE IF RefreshResult(o) = "done"
    THEN [posts |-> 0, toast |-> "none", text |-> "", result |-> "true"]
    ELSE [posts |-> 0, toast |-> "error", text |-> "TypeError",
          result |-> "false"]

\* Commands that have not returned yet: awaiting the POST or the refresh.
Refreshing == { c \in CycleIds :
                  cycles[c].pc = "fetching" /\ cycles[c].caller = "command" }
Pending == posting["initialize"] + posting["control"] + Cardinality(Refreshing)

\* The synchronous head of initializeSimulation / controlSimulation:
\* SET_LOADING true, SET_ERROR null, then the POST goes out.
CommandCall(kind) ==
    /\ phase = "mounted"
    /\ Pending < MaxCommands
    /\ state' = simulationReducer(simulationReducer(state, "SET_LOADING", TRUE),
                                  "SET_ERROR", NoError)
    /\ posting' = [posting EXCEPT ![kind] = @ + 1]
    /\ UNCHANGED <<updateInterval, closureInterval, timers, nextTimer, cycles,
                   nextCycle, phase, fetches>>

\* The POST of a command of this kind settles.  On success the command calls
\* refreshData and awaits it; otherwise the catch block stores the message,
\* and the finally block clears loading.
CommandSettle(kind, reply) ==
    /\ phase = "mounted"
    /\ posting[kind] > 0
    /\ posting' = [posting EXCEPT ![kind] = @ - 1]
    /\ IF CommandSucceeded(kind, reply)
       THEN RefreshStart(state, "command")
       ELSE /\ state' = simulationReducer(
                          simulationReducer(state, "SET_ERROR",
                                            ErrorMessage(kind, reply)),
                          "SET_LOADING", FALSE)
            /\ UNCHANGED <<cycles, nextCycle, fetches>>
    /\ UNCHANGED <<updateInterval, closureInterval, timers, nextTimer, phase>>

\* The interval of timer t elapses (the clock left out).
Elapse(t) ==
    /\ phase = "mounted"
    /\ t \in DOMAIN timers
    /\ timers[t] > 0
    /\ timers' = [timers EXCEPT ![t] = 0]
    /\ UNCHANGED <<state, updateInterval, closureInterval, nextTimer, cycles,
                   nextCycle, posting, phase, fetches>>

\* dispatch(action): React replaces the state by what the reducer returns.
Dispatch(type, payload) ==
    /\ state' = simulationReducer(state, type, payload)
    /\ UNCHANGED <<updateInterval, closureInterval, timers, nextTimer, cycles,
                   nextCycle, posting, phase, fetches>>

\* ---- the control panel ----
\* The configuration form is submitted: handleInitialize calls
\* initializeSimulation, with the functions of the render it was created in.
handleInitialize ==
    /\ panel.pc = "idle"
    /\ CommandCall("initialize")
    /\ panel' = [pc |-> "posting", captured |-> closureInterval, cycle |-> 0,
                 reply |-> "none"]

\* handleInitialize that does not look at what initializeSimulation returned.
handleInitializeSettleUnchecked(reply) ==
    /\ panel.pc = "posting"
    /\ CommandSettle("initialize", reply)
    /\ panel' = IF CommandSucceeded("initialize", reply)
                THEN [panel EXCEPT !.pc = "refreshing", !.cycle = nextCycle,
                                   !.reply = reply]
                ELSE [panel EXCEPT !.pc = "resuming", !.reply = reply]

\* The POST of initializeSimulation settles.  On failure it returns false
\* and handleInitialize ends; on success it awaits refreshData first.
handleInitializeSettle(reply) ==
    /\ panel.pc = "posting"
    /\ CommandSettle("initialize", reply)
    /\ panel' = IF CommandSucceeded("initialize", reply)
                THEN [panel EXCEPT !.pc = "refreshing", !.cycle = nextCycle,
                                   !.reply = reply]
                ELSE [panel EXCEPT !.pc = "idle", !.reply = reply]

\* The awaited refreshData is done: initializeSimulation returns true.
handleInitializeReturn(o) ==
    /\ panel.pc = "refreshing"
    /\ RefreshComplete(panel.cycle, o)
    /\ panel' = [panel EXCEPT !.pc = "resuming"]

\* handleInitialize resumes with success true: startRealTimeUpdates() of
\* the render it was created in.
handleInitializeStart ==
    /\ panel.pc = "resuming"
    /\ phase = "mounted"
    /\ StartWith(panel.captured)
    /\ panel' = [panel EXCEPT !.pc = "idle"]
    /\ UNCHANGED <<state, closureInterval, cycles, nextCycle, posting, phase, fetches>>

Next ==
    \/ MountEffect /\ UNCHANGED <<out, age, panel>>
    \/ \E c \in CycleIds, o \in Outcomes : RefreshComplete(c, o) /\ UNCHANGED <<out, age, panel>>
    \/ startRealTimeUpdates /\ UNCHANGED <<out, age, panel>>
    \/ stopRealTimeUpdates /\ UNCHANGED <<out, age, panel>>
    \/ Render /\ UNCHANGED <<out, age, panel>>
    \/ \E t \in TimerIds : TimerFire(t) /\ UNCHANGED <<out, age, panel>>
    \/ \E t \in TimerIds : Elapse(t) /\ UNCHANGED <<out, age, panel>>
    \/ \E kind \in Kinds : CommandCall(kind) /\ UNCHANGED <<out, age, panel>>
    \/ \E kind \in Kinds, reply \in Replies :
          CommandSettle(kind, reply) /\ UNCHANGED <<out, age, panel>>

NextTimed ==
    \/ MountEffect /\ UNCHANGED <<out, age, panel>>
    \/ \E c \in CycleIds, o \in Outcomes : RefreshComplete(c, o) /\ UNCHANGED <<out, age, panel>>
    \/ startRealTimeUpdates /\ UNCHANGED <<out, age, panel>>
    \/ stopRealTimeUpdates /\ UNCHANGED <<out, age, panel>>
    \/ Render /\ UNCHANGED <<out, age, panel>>
    \/ \E t \in TimerIds : TimerFire(t) /\ UNCHANGED <<out, age, panel>>
    \/ Advance /\ UNCHANGED <<out, age, panel>>
    \/ \E kind \in Kinds : CommandCall(kind) /\ UNCHANGED <<out, age, panel>>
    \/ \E kind \in Kinds, reply \in Replies :
          CommandSettle(kind, reply) /\ UNCHANGED <<out, age, panel>>

NextFetch ==
    \/ MountEffect /\ UNCHANGED <<out, age, panel>>
    \/ \E c \in CycleIds, s \in Sources :
          \E r \in Responses(s) : FetchSettle(c, s, r) /\ UNCHANGED <<out, age, panel>>
    \/ \E kind \in Kinds : CommandCall(kind) /\ UNCHANGED <<out, age, panel>>
    \/ \E kind \in Kinds, reply \in Replies :
          CommandSettle(kind, reply) /\ UNCHANGED <<out, age, panel>>

NextOutput ==
    \/ MountEffect /\ out' = NoOutput /\ UNCHANGED <<age, panel>>
    \/ \E c \in CycleIds, o \in Outcomes :
          RefreshComplete(c, o) /\ out' = RefreshOutput(c, o) /\ UNCHANGED <<age, panel>>
    \/ \E kind \in Kinds :
          CommandCall(kind) /\ out' = CommandCallOutput /\ UNCHANGED <<age, panel>>
    \/ \E kind \in Kinds, reply \in Replies :
          /\ CommandSettle(kind, reply)
          /\ out' = CommandSettleOutput(kind, reply)
          /\ UNCHANGED <<age, panel>>

NextTeardown ==
    \/ MountEffect /\ UNCHANGED <<out, age, panel>>
    \/ \E c \in CycleIds, o \in Outcomes :
          RefreshComplete(c, o) /\ UNCHANGED <<out, age, panel>>
    \/ startRealTimeUpdates /\ UNCHANGED <<out, age, panel>>
    \/ stopRealTimeUpdates /\ UNCHANGED <<out, age, panel>>
    \/ Render /\ UNCHANGED <<out, age, panel>>
    \/ \E t \in TimerIds : TimerFire(t) /\ UNCHANGED <<out, age, panel>>
    \/ \E t \in TimerIds : Elapse(t) /\ UNCHANGED <<out, age, panel>>
    \/ Unmount /\ UNCHANGED <<out, age, panel>>

NextTimeout ==
    \/ MountEffect /\ UNCHANGED <<out, age, panel>>
    \/ \E c \in CycleIds, s \in Sources :
          \E r \in Responses(s) : FetchAnswer(c, s, r) /\ UNCHANGED <<out, age, panel>>
    \/ \E c \in CycleIds, s \in Sources :
          FetchTimeout(c, s) /\ UNCHANGED <<out, age, panel>>
    \/ Tick

NextPanel ==
    \/ MountEffect /\ UNCHANGED <<out, age, panel>>
    \/ \E c \in CycleIds, o \in Outcomes :
          /\ ~(panel.pc = "refreshing" /\ panel.cycle = c)
          /\ RefreshComplete(c, o)
          /\ UNCHANGED <<out, age, panel>>
    \/ startRealTimeUpdates /\ UNCHANGED <<out, age, panel>>
    \/ stopRealTimeUpdates /\ UNCHANGED <<out, age, panel>>
    \/ Render /\ UNCHANGED <<out, age, panel>>
    \/ handleInitialize /\ UNCHANGED <<out, age>>
    \/ \E reply \in Replies : handleInitializeSettle(reply) /\ UNCHANGED <<out, age>>
    \/ \E o \in Outcomes : handleInitializeReturn(o) /\ UNCHANGED <<out, age>>
    \/ handleInitializeStart /\ UNCHANGED <<out, age>>

NextReducer ==
    \E type \in ActionTypes : \E payload \in Payloads(type) :
        Dispatch(type, payload) /\ UNCHANGED <<out, age, panel>>

\* Time passes, and axios fires a timeout that is due.  Nothing is assumed
\* about the remote system: it may never answer.
FairTimeout ==
    /\ WF_vars(Tick)
    /\ \A c \in CycleIds, s \in Sources :
          WF_vars(FetchTimeout(c, s) /\ UNCHANGED <<out, age, panel>>)

\* The program with the polling interval abstracted to "elapsed or not".
Spec == Init /\ [][Next]_vars

\* The program with a clock.
SpecTimed == Init /\ [][NextTimed]_vars

\* The refresh path followed GET by GET: the cycles of the mount effect and
\* of the commands, each of the five answers arriving on its own.
SpecFetch == Init /\ [][NextFetch]_vars

\* The provider from mount to unmount, with the poller and its cycles.
SpecTeardown == Init /\ [][NextTeardown]_vars

\* The mount-time refresh followed GET by GET on a clock: each GET is
\* answered in time or given up by axios.
SpecTimeout == Init /\ [][NextTimeout]_vars /\ FairTimeout

\* The control panel's handleInitialize, the only caller of
\* initializeSimulation, beside the poller's start and stop buttons.
SpecPanel == Init /\ [][NextPanel]_vars

\* The reducer alone: every action with every payload, dispatched on every
\* state the dispatches before it have produced.
SpecReducer == Init /\ [][NextReducer]_vars

\* The commands together with what they send out: the POST, the toast and
\* the value the promise resolves with.
SpecOutput == Init /\ [][NextOutput]_vars

\* ---- properties ----
InFlight == { c \in CycleIds : cycles[c].pc = "fetching" }

\* The poller was started and stop() has cleared the handle since.
Stopped == updateInterval = 0 /\ nextTimer > 1

\* Cycle c was issued in a run that stop() has ended, and a later start()
\* has begun a new run.
OldRun(c) ==
    /\ cycles[c].gen >= 1
    /\ cycles[c].gen \notin DOMAIN timers
    /\ updateInterval > cycles[c].gen

\* Cycle c completes in this step.
Completes(c) == cycles[c].pc = "fetching" /\ cycles'[c].pc = "done"

\* C1: once a newer cycle's payload is in a slot, the result of an older
\* cycle that completes afterwards leaves that slot unchanged.
C1_StaleWriteRejected ==
    [][\A c \in CycleIds, s \in Sources :
          (Completes(c) /\ Slot(state, s) > c)
              => Slot(state', s) = Slot(state, s)]_vars

\* C2: between a stop() and the next start() no step changes the snapshot
\* (status, agents, networkData, economicData, culturalData, connected).
C2_NoMutationAfterStop ==
    [][Stopped => Snapshot(state') = Snapshot(state)]_vars

\* C3: after a stop() and a new start(), a cycle issued in the stopped run
\* changes nothing of the snapshot when it completes.
C3_OldGenerationDiscarded ==
    [][\A c \in CycleIds :
          (Completes(c) /\ OldRun(c))
              => Snapshot(state') = Snapshot(state)]_vars

\* C4: when a cycle completes, the slot of every source whose fetch was
\* fulfilled with a body holds that cycle's payload, whatever the other
\* sources answered.
C4_FailureIsolation ==
    [][\A c \in CycleIds, o \in Outcomes, s \in Sources :
          (RefreshComplete(c, o) /\ o[s] \in {"fulfilled", "noagents"})
              => Slot(state', s) = Payload(s, c, o[s])]_vars

\* C5: when a cycle completes and leaves no cycle in progress, connected is
\* true exactly if the status fetch of that cycle was fulfilled.  Stated for
\* the cycles whose answers are all well-formed, so that the defect of C4
\* plays no part.
C5_ConnectedIffStatus ==
    [][\A c \in CycleIds, o \in Outcomes :
          (RefreshComplete(c, o) /\ ~RefreshThrows(o) /\ InFlight' = {})
              => (state'.connected <=> Fulfilled(o["status"]))]_vars

\* C6: for a cycle about to complete, two sets of answers that agree on the
\* status source give the same connected, whatever the other sources answer.
C6_ConnectedOnlyStatus ==
    \A c \in InFlight, o1 \in Outcomes, o2 \in Outcomes :
        o1["status"] = o2["status"]
            => RefreshCommit(state, c, o1).connected
                 = RefreshCommit(state, c, o2).connected

\* C7: at most one command is pending.
C7_SingleFlight == Pending <= 1

\* C8: while the busy flag (loading) is set no dispatch is accepted: no new
\* POST goes out.
C8_BusyRejectsDispatch ==
    [][state.loading =>
          \A kind \in Kinds : posting'[kind] <= posting[kind]]_vars

\* C9: when the POST of a command settles, refreshData is called at once, in
\* the same turn of the event loop, exactly if the reply carries the expected
\* status ('initialized' for initialize, any status for control); a network
\* error or another reply starts no cycle.
ExpectedReply(kind, reply) ==
    \/ kind = "initialize" /\ reply = "initialized"
    \/ kind = "control" /\ reply \in {"initialized", "other"}

C9_RefreshIffSuccess ==
    [][\A kind \in Kinds, reply \in Replies :
          CommandSettle(kind, reply)
              => IF ExpectedReply(kind, reply)
                 THEN /\ nextCycle' = nextCycle + 1
                      /\ cycles'[nextCycle].pc = "fetching"
                      /\ cycles'[nextCycle].caller = "command"
                 ELSE /\ nextCycle' = nextCycle
                      /\ cycles' = cycles]_vars

\* C9 witness: a cycle called by a successful command is in flight, and the
\* message of a command that failed meanwhile is stored.
C9_Witness ==
    /\ \E c \in InFlight : cycles[c].caller = "command"
    /\ state.error \in {"detail", "message", GenericMessage("initialize"),
                        GenericMessage("control")}

\* C10: when a command-triggered cycle starts, the next regular tick is at
\* least one full interval away: no timer starts a cycle sooner.
C10_TickRescheduled ==
    [][(nextCycle' = nextCycle + 1 /\ cycles'[nextCycle].caller = "command")
          => \A t \in DOMAIN timers' : timers'[t] >= Interval]_vars

\* C11: at most one polling cycle is in flight at any time: no cycle, whether
\* started by the timer, by a command or by the mount effect, is started
\* while the fetches of an earlier cycle are still unsettled.
C11_OneCycleInFlight == Cardinality(InFlight) <= 1

\* C12: however often start() is called without a stop() in between, also
\* twice before the stored handle has been updated, at most one polling
\* timer is active in every reachable state.
C12_OneTimer == Cardinality(DOMAIN timers) <= 1

\* C13: once stop() has returned and until the next start(), every pending
\* timer is cleared, so that no timer-driven cycle can start.
C13_StopClearsTimers == Stopped => DOMAIN timers = {}

\* The poller is active: start() has stored a timer handle and no stop()
\* has cleared it since.
Active == updateInterval # 0

\* A cycle is started in this step.
Starts == nextCycle' = nextCycle + 1

PendingFetches(c) == { s \in Sources : fetches[c][s] = "pending" }

\* C15: a cycle completes only in the step in which the last of its fetches
\* settles, and a step in which one of its fetches settles while another is
\* still pending commits nothing and reports nothing: the snapshot, the
\* loading flag and the cycle stay as they are.
C15_SettleAllBarrier ==
    [][\A c \in CycleIds :
         /\ Completes(c) => \E s \in Sources : PendingFetches(c) = {s}
         /\ (fetches'[c] # fetches[c] /\ cycles[c].pc = "fetching"
               /\ ~Completes(c)) =>
              /\ Snapshot(state') = Snapshot(state)
              /\ state'.loading = state.loading
              /\ cycles' = cycles]_vars

\* The status of a command's refresh has arrived while another GET of the
\* same cycle is pending: nothing of it is in the snapshot, and the command
\* has not returned.
C15_Witness ==
    \E c \in InFlight :
        /\ cycles[c].caller = "command"
        /\ fetches[c]["status"] = "fulfilled"
        /\ fetches[c]["culture"] = "pending"
        /\ state.status # c
        /\ state.loading

\* C16: when a cycle completes, the slot of every source whose fetch was
\* rejected holds exactly the payload it held before (the initial empty
\* value if the source never succeeded).
C16_FailedFetchRetains ==
    [][\A c \in CycleIds : Completes(c) =>
         \A s \in Sources :
            (fetches[c][s] = "rejected" \/ FetchSettle(c, s, "rejected")) =>
               Slot(state', s) = Slot(state, s)]_vars

\* The first cycle is done with status and agents fulfilled and network
\* rejected: status and agents hold its payload, network its initial value,
\* and connected is true.
C16_Witness ==
    /\ nextCycle = 2
    /\ cycles[1].pc = "done"
    /\ state.status = 1
    /\ state.agents = 1
    /\ state.networkData = 0
    /\ state.connected

\* Every GET of the cycle rejected.
AllRejected == [s \in Sources |-> "rejected"]

\* C17: after a cycle in which a source's fetch failed the snapshot marks
\* that slot as failed, so that a consumer can tell the stale slot from a
\* fresh one: when a cycle whose fetches all failed completes, something in
\* what consumers read (the slots, connected, error) records it.
C17_FailedSlotMarked ==
    [][\A c \in CycleIds : RefreshComplete(c, AllRejected) =>
         <<Snapshot(state'), state'.error>> # <<Snapshot(state), state.error>>]_vars

\* C18: whatever the five fetches answer (success, rejection, timeout,
\* malformed payload), refreshData resolves: no cycle ends with its promise
\* rejected, so the timer callback and the commands never see a throw.
C18_RefreshNeverRejects ==
    \A c \in CycleIds : cycles[c].pc \in {"none", "fetching", "done"}

\* A cycle in which /agents answered null is done: the TypeError was caught
\* and stored, and connected lowered.
C18_Witness ==
    /\ \E c \in CycleIds : cycles[c].pc = "done"
    /\ state.error = "TypeError"
    /\ ~state.connected

\* A POST goes out in this step / the POST of a command settles in it / a
\* command awaiting refreshData returns in it.
Posts == \E kind \in Kinds : posting'[kind] > posting[kind]
Settles == \E kind \in Kinds : posting'[kind] < posting[kind]
Returns == \E c \in CycleIds : Completes(c) /\ cycles[c].caller = "command"

\* C19: a command sends exactly one POST, in its call step and in no other;
\* exactly one toast, in the step in which its POST settles (the success
\* toast if the reply is the expected one, the failure toast otherwise); and
\* it resolves once, with false in that step on failure and with true when
\* the awaited refresh is done on success.  No other step sends anything.
C19_SettlesOnce ==
    [][/\ out'.posts = (IF Posts THEN 1 ELSE 0)
       /\ (out'.toast # "none") <=> Settles
       /\ \A kind \in Kinds, reply \in Replies : CommandSettle(kind, reply) =>
             IF ExpectedReply(kind, reply)
             THEN out'.toast = "success" /\ out'.result = "none"
             ELSE out'.toast = "error" /\ out'.result = "false"
       /\ Returns => out'.result = "true"
       /\ (~Settles /\ ~Returns) => out'.result = "none"]_vars

\* One command has just returned true after its refresh while the message
\* of another, which failed, is on display.
C19_Witness ==
    /\ out.result = "true"
    /\ state.error \in {"detail", "message", GenericMessage("initialize"),
                        GenericMessage("control")}

\* C20: immediately after every genuine start(), one that creates the
\* polling timer, all slots hold their initial empty values and connected
\* is false: nothing from before the start() remains visible.
C20_EmptyAtStart ==
    [][nextTimer' = nextTimer + 1 =>
         Snapshot(state') = Snapshot(initialState)]_vars

\* C21: every started cycle eventually completes: a GET that is not
\* answered is given up after the client's timeout and counts as rejected,
\* so refreshData returns whatever the remote system does.
C21_CycleCompletes ==
    \A c \in CycleIds : (cycles[c].pc = "fetching") ~> (cycles[c].pc = "done")

\* The first cycle ran into the timeout and is done: the status, answered
\* in time, is in the snapshot, the network data, given up, is not.
C21_Witness ==
    /\ cycles[1].pc = "done"
    /\ age[1] >= Timeout
    /\ state.status = 1
    /\ state.networkData = 0

\* C22: the toast of a failed command, and the error it stores, is the
\* remote system's detail when the error response has one, else the error's
\* own message, else the generic text for the action; the toast of a
\* successful command is the success message of the action.
C22_NotificationText ==
    [][\A kind \in Kinds, reply \in Replies : CommandSettle(kind, reply) =>
         IF ExpectedReply(kind, reply)
         THEN out'.text = (IF kind = "initialize"
                           THEN "Simulation initialized successfully"
                           ELSE "Simulation <action> successful")
         ELSE /\ out'.text = (CASE reply = "detail" -> "detail"
                                [] reply = "message" -> "message"
                                [] OTHER -> GenericMessage(kind))
              /\ state'.error = out'.text]_vars

\* A command has just failed with an error response that carries a detail.
C22_Witness ==
    /\ out.toast = "error"
    /\ out.text = "detail"
    /\ state.error = "detail"

\* The status GET rejected, the other four fulfilled.
StatusRejected == [s \in Sources |-> IF s = "status" THEN "rejected" ELSE "fulfilled"]

\* What the state exposes about connectivity.
Connectivity(st) == st.connected

\* C23: the connectivity state exposes a count of consecutive failures of
\* the status source, which grows by one with each completed cycle whose
\* status fetch failed: such a cycle changes what the state exposes about
\* connectivity.
C23_FailureCountGrows ==
    [][\A c \in CycleIds : RefreshComplete(c, StatusRejected) =>
         Connectivity(state') # Connectivity(state)]_vars

\* C24: once the provider is unmounted no polling timer remains active,
\* also when start() was called after the first render.
C24_TeardownClearsTimer == phase = "unmounted" => DOMAIN timers = {}

\* C25: loading is true whenever a command is awaiting its POST or its
\* refresh, and false only when none is, also when two commands overlap.
C25_LoadingTracksPending == state.loading <=> Pending > 0

\* C26: while the refresh a command awaits is in flight, loading is true;
\* and when the command returns true, every result of that refresh that
\* was fulfilled is in the snapshot.
C26_ResolvesAfterResync ==
    [][\A c \in CycleIds :
         (cycles[c].pc = "fetching" /\ cycles[c].caller = "command") =>
            /\ state.loading
            /\ \A o \in Outcomes :
                  (RefreshComplete(c, o) /\ out'.result = "true") =>
                     \A s \in Sources :
                        Fulfilled(o[s]) => Slot(state', s) = Payload(s, c, o[s])]_vars

\* C27: a cycle whose status GET is rejected and whose fulfilled answers
\* are well-formed leaves connected and error as they are; connected is
\* lowered only by a cycle in which processing a fulfilled answer throws,
\* and such a cycle leaves the slots after the throwing one (network,
\* economy, culture) as they are.
C27_FailureKeepsConnected ==
    /\ [](\A c \in InFlight, o \in Outcomes :
            LET after == RefreshCommit(state, c, o)
            IN  /\ (o["status"] = "rejected" /\ ~RefreshThrows(o)) =>
                      /\ after.connected = state.connected
                      /\ after.error = state.error
                /\ RefreshThrows(o) =>
                      /\ ~after.connected
                      /\ \A s \in {"network", "economy", "culture"} :
                            Slot(after, s) = Slot(state, s)
                /\ (state.connected /\ ~after.connected) => RefreshThrows(o))
    /\ [][(state.connected /\ ~state'.connected) =>
            \E c \in CycleIds : Completes(c)]_vars

\* The refresh of a command has just completed without its status: the
\* status is still that of the first cycle, the network data is new, and
\* connected is still true.
C27_Witness ==
    /\ out.result = "true"
    /\ state.status = 1
    /\ state.networkData = 2
    /\ state.connected
    /\ state.error = NoError

\* C28: every refreshData clears the error field when it starts, whoever
\* calls it: the message of a failed command is gone once the next refresh
\* has begun.
C28_RefreshClearsError == [][Starts => state'.error = NoError]_vars

\* A command failed while another was awaiting its POST; that one has since
\* succeeded and started its refresh, which cleared the message.
C28_Witness ==
    /\ state.error = NoError
    /\ ~state.loading
    /\ \E c \in InFlight : cycles[c].caller = "command"

\* C29: handleInitialize calls startRealTimeUpdates exactly when
\* initializeSimulation returned true, which is when the remote system
\* answered with status 'initialized' and the refresh that follows is done.
\* Any other reply, or a network error, stores an error, returns false and
\* leaves the poller as it was.
C29_StartsOnlyAfterSuccess ==
    [][/\ \A reply \in Replies : handleInitializeSettle(reply) =>
             /\ <<updateInterval', timers'>> = <<updateInterval, timers>>
             /\ IF reply = "initialized"
                THEN panel'.pc = "refreshing"
                ELSE state'.error # NoError /\ panel'.pc = "idle"
       /\ (panel.pc = "refreshing" /\ Completes(panel.cycle)) =>
             panel'.pc = "resuming"
       /\ panel.pc = "resuming" =>
             /\ panel.reply = "initialized"
             /\ cycles[panel.cycle].pc = "done"
       /\ (panel.pc = "resuming" /\ panel'.pc = "idle" /\ panel.captured = 0) =>
             /\ updateInterval' = nextTimer
             /\ nextTimer \in DOMAIN timers'
       /\ (panel' # panel /\ panel.pc # "resuming") =>
             <<updateInterval', timers'>> = <<updateInterval, timers>>]_vars

\* handleInitialize has run to its end after a reply 'initialized': the
\* timer it created is the stored handle.
C29_Witness ==
    /\ panel.pc = "idle"
    /\ panel.reply = "initialized"
    /\ panel.captured = 0
    /\ updateInterval # 0
    /\ updateInterval \in DOMAIN timers
    /\ cycles[panel.cycle].pc = "done"

\* The field an action names ("none" for the two that name none).
FieldOf(type) ==
    CASE type = "SET_LOADING"       -> "loading"
      [] type = "SET_ERROR"         -> "error"
      [] type = "SET_CONNECTED"     -> "connected"
      [] type = "SET_STATUS"        -> "status"
      [] type = "SET_AGENTS"        -> "agents"
      [] type = "SET_NETWORK_DATA"  -> "networkData"
      [] type = "SET_ECONOMIC_DATA" -> "economicData"
      [] type = "SET_CULTURAL_DATA" -> "culturalData"
      [] OTHER                      -> "none"

\* C30: the reducer changes one field per action: for every state and every
\* SET_ action the result has the fields of the input, each with the
\* input's value except the one the action names, which holds the payload;
\* UPDATE_REALTIME_DATA and an unknown action leave every field as it is.
C30_OneFieldPerAction ==
    [][\A type \in ActionTypes : \A payload \in Payloads(type) :
          Dispatch(type, payload) =>
             /\ DOMAIN state' = DOMAIN state
             /\ \A f \in DOMAIN state :
                   state'[f] = IF f = FieldOf(type) THEN payload ELSE state[f]]_vars

\* A state only dispatches produce: the status of one cycle beside the
\* culture of another, loading and connected both set, a message stored.
C30_Witness ==
    /\ state.status = 2
    /\ state.agents = 0
    /\ state.culturalData = 1
    /\ state.loading
    /\ state.connected
    /\ state.error = "TypeError"
====
